---------------------------- MODULE Spec2Model ----------------------------
(***************************************************************************)
(* Model of examples/cross-platform-price-comparison.py: the price         *)
(* extractor parse_min_price, the per-source fetch run_scraper, and the    *)
(* aggregation, sort, display and export steps of main().                  *)
(*                                                                         *)
(* Text is a sequence of one-character strings.  A Python float is an      *)
(* exact decimal [num, exp] standing for num / 10^exp, kept normalised     *)
(* (no trailing zero digit), so that equal numbers are equal records; the  *)
(* binary rounding of the interpreter (80 * 0.14 = 11.200000000000001) is  *)
(* not modelled.                                                           *)
(***************************************************************************)
EXTENDS Integers, Sequences, FiniteSets, TLC

VARIABLES
    argv,        \* sys.argv[1:]: <<>> or <<keyword>>
    token,       \* os.environ.get("APIFY_TOKEN"): "absent", "" or "tok"
    pc,          \* position in main() / run_scraper()
    k,           \* index of the current key of `for key in ACTORS`
    items,       \* run_scraper local: the drained dataset items
    results,     \* run_scraper local: the records normalised so far
    merged,      \* main local: the merged collection
    status,      \* per source: "pending", "running", "ok" or "failed"
    fetched,     \* per source: the items of its completed run_scraper call
    calls,       \* the actor calls made on the client, in order
    stdout,      \* the lines printed, as tags
    files,       \* the export files written: name -> records
    sorted,      \* merged.sort (line 158) has run
    exitStatus,  \* -1 while running, else the process exit status
    raw,         \* argument of a parse_min_price call under test
    parsed       \* its outcome

vars == <<argv, token, pc, k, items, results, merged, status, fetched, calls,
          stdout, files, sorted, exitStatus, raw, parsed>>

mainVars == <<argv, token, pc, k, items, results, merged, status, fetched,
              calls, stdout, files, sorted, exitStatus>>

(***************************************************************************)
(* Bounds of the model.                                                    *)
(***************************************************************************)
\* longest price text enumerated for parse_min_price
MaxLen == 4
\* iterate_items(limit=50): the per-source item limit, scaled down
ItemLimit == 2
\* merged[:30]: the number of rows print_table displays, scaled down
DisplayRows == 3

(***************************************************************************)
(* Python values that a raw item's price field may hold.                   *)
(***************************************************************************)
NoneVal == [kind |-> "none", text |-> <<>>, num |-> 0, items |-> <<>>]
StrVal(t) == [kind |-> "str", text |-> t, num |-> 0, items |-> <<>>]
IntVal(n) == [kind |-> "int", text |-> <<>>, num |-> n, items |-> <<>>]
DictVal(kv) == [kind |-> "dict", text |-> <<>>, num |-> 0, items |-> kv]

\* {'min': 1, 'max': 2}: a structured price whose text form has 20 characters
PriceDict == DictVal(<< <<(<<"m", "i", "n">>), 1>>, <<(<<"m", "a", "x">>), 2>> >>)

Digit == {"0", "1", "2", "3", "4", "5", "6", "7", "8", "9"}
DigitChars == <<"0", "1", "2", "3", "4", "5", "6", "7", "8", "9">>
DigitVal(c) == (CHOOSE i \in 1..10 : DigitChars[i] = c) - 1

RECURSIVE NatText(_)
\* str(n) of a non-negative int
NatText(n) == IF n < 10 THEN <<DigitChars[n + 1]>>
              ELSE NatText(n \div 10) \o <<DigitChars[(n % 10) + 1]>>

RECURSIVE DictBody(_)
\* the "'key': value" entries of repr(dict), joined by ", "
DictBody(kv) ==
    IF kv = <<>> THEN <<>>
    ELSE LET e == <<"'">> \o kv[1][1] \o <<"'", ":", " ">> \o NatText(kv[1][2])
         IN IF Len(kv) = 1 THEN e ELSE e \o <<",", " ">> \o DictBody(Tail(kv))

\* str(raw), line 48
Str(v) ==
    CASE v.kind = "str"  -> v.text
      [] v.kind = "int"  -> NatText(v.num)
      [] v.kind = "dict" -> <<"{">> \o DictBody(v.items) \o <<"}">>
      [] OTHER           -> <<"N", "o", "n", "e">>

\* truth value of raw, line 46
Truthy(v) ==
    CASE v.kind = "str"  -> v.text # <<>>
      [] v.kind = "int"  -> v.num # 0
      [] v.kind = "dict" -> v.items # <<>>
      [] OTHER           -> FALSE

(***************************************************************************)
(* Floats and float().                                                     *)
(***************************************************************************)
None == [tag |-> "None", num |-> 0, exp |-> 0]
ValueError == [tag |-> "ValueError", num |-> 0, exp |-> 0]
Unset == [tag |-> "unset", num |-> 0, exp |-> 0]

RECURSIVE Pow10(_)
Pow10(e) == IF e = 0 THEN 1 ELSE 10 * Pow10(e - 1)

RECURSIVE Float(_, _)
\* the number n / 10^e, normalised
Float(n, e) == IF e > 0 /\ n % 10 = 0 THEN Float(n \div 10, e - 1)
               ELSE [tag |-> "float", num |-> n, exp |-> e]

RECURSIVE ToNat(_)
ToNat(ds) == IF ds = <<>> THEN 0
             ELSE ToNat(SubSeq(ds, 1, Len(ds) - 1)) * 10 + DigitVal(ds[Len(ds)])

IsDigit(c) == c \in Digit
IsDot(c) == c = "."

\* float(t) for a text t of digits and dots (a match of [\d.]+): a number when
\* t has a digit and at most one dot, else ValueError.  Lines 51 and 54.
float(t) ==
    LET ds == SelectSeq(t, IsDigit)
        dots == SelectSeq(t, IsDot)
        dot == IF dots = <<>> THEN Len(t) + 1
               ELSE CHOOSE i \in 1..Len(t) :
                      t[i] = "." /\ \A j \in 1..(i - 1) : t[j] # "."
    IN IF ds = <<>> \/ Len(dots) > 1 THEN ValueError
       ELSE Float(ToNat(ds), IF dots = <<>> THEN 0 ELSE Len(t) - dot)

\* CNY_TO_USD = 0.14, line 41
CNY_TO_USD == [num |-> 14, exp |-> 2]

\* x * CNY_TO_USD, line 54
Times(x, c) == Float(x.num * c.num, x.exp + c.exp)

(***************************************************************************)
(* The two regular expression searches of parse_min_price.                 *)
(***************************************************************************)
Whitespace == {" "}
NumCh == Digit \cup {"."}
NotComma(c) == c # ","

Min(S) == CHOOSE x \in S : \A y \in S : x <= y

\* first index >= i of s that is not whitespace (Len(s) + 1 if none): \s*
SkipWs(s, i) ==
    Min({j \in i..(Len(s) + 1) :
            (j = Len(s) + 1 \/ s[j] \notin Whitespace)
            /\ \A n \in i..(j - 1) : s[n] \in Whitespace})

\* last index of the maximal run of [\d.] characters starting at j: [\d.]+
RunEnd(s, j) ==
    CHOOSE e \in j..Len(s) :
        (\A n \in j..e : s[n] \in NumCh) /\ (e = Len(s) \/ s[e + 1] \notin NumCh)

\* re.search(r"\$\s*([\d.]+)", s): group 1 of the leftmost match, or <<>>
SearchDollar(s) ==
    LET starts == {i \in 1..Len(s) :
                      s[i] = "$"
                      /\ LET j == SkipWs(s, i + 1)
                         IN j <= Len(s) /\ s[j] \in NumCh}
    IN IF starts = {} THEN <<>>
       ELSE LET j == SkipWs(s, Min(starts) + 1) IN SubSeq(s, j, RunEnd(s, j))

\* re.search(r"([\d.]+)", s): group 1 of the leftmost match, or <<>>
SearchNumber(s) ==
    LET starts == {i \in 1..Len(s) : s[i] \in NumCh}
    IN IF starts = {} THEN <<>>
       ELSE SubSeq(s, Min(starts), RunEnd(s, Min(starts)))

\* parse_min_price(raw): a float, None, or the ValueError float() raises
parse_min_price(v) ==
    IF ~Truthy(v) THEN None
    ELSE LET s == SelectSeq(Str(v), NotComma)
             m1 == SearchDollar(s)
             m2 == SearchNumber(s)
         IN IF m1 # <<>> THEN float(m1)
            ELSE IF m2 # <<>>
                 THEN LET x == float(m2)
                      IN IF x = ValueError THEN ValueError
                         ELSE Times(x, CNY_TO_USD)
                 ELSE None

(***************************************************************************)
(* The registry ACTORS and the records run_scraper builds.                 *)
(***************************************************************************)
\* the keys of ACTORS in definition (= iteration) order, lines 23-39
ACTORS == <<"yiwugo", "dhgate", "mic">>

\* ACTORS[key]["name"]
ActorName(key) ==
    CASE key = "yiwugo" -> "Yiwugo"
      [] key = "dhgate" -> "DHgate"
      [] OTHER          -> "Made-in-China"

\* the price fields of the raw items the sources return in this model:
\* "$0", "n/a", "a." and {'min': 1, 'max': 2}
PriceSamples ==
    {StrVal(<<"$", "0">>), StrVal(<<"n", "/", "a">>), StrVal(<<"a", ".">>),
     PriceDict}

\* parse_min_price on the sample prices, evaluated once
ParsedSample == [v \in PriceSamples |-> parse_min_price(v)]

\* the i-th raw item of a dataset: productName "p<i>" and a price field
RawItem(i, price) == [productName |-> <<"p">> \o NatText(i), price |-> price]

\* the first ItemLimit items of a dataset: iterate_items(limit=...), line 67
IterateItems(dataset) ==
    [i \in 1..(IF Len(dataset) < ItemLimit THEN Len(dataset) ELSE ItemLimit)
        |-> RawItem(i, dataset[i])]

Datasets == UNION {[1..n -> PriceSamples] : n \in 0..(ItemLimit + 1)}

\* the record appended for one item, lines 73-84 (minPrice may be ValueError:
\* then the call of parse_min_price raised and no record is built)
Normalize(key, item) ==
    [platform |-> ActorName(key),
     name |-> item.productName,
     price |-> item.price,
     minPrice |-> ParsedSample[item.price]]

(***************************************************************************)
(* merged.sort(key=lambda p: (p["minPrice"] is None, p["minPrice"] or 0))  *)
(***************************************************************************)
\* a key without the `is None` component: an absent price sorts as 0
SortKeyNoneAsZero(p) ==
    [isNone |-> FALSE,
     val |-> IF p.minPrice = None \/ p.minPrice.num = 0
             THEN Float(0, 0) ELSE p.minPrice]

\* the sort key of a record, line 158
SortKey(p) ==
    [isNone |-> p.minPrice = None,
     val |-> IF p.minPrice = None \/ p.minPrice.num = 0
             THEN Float(0, 0) ELSE p.minPrice]

NumLess(x, y) == x.num * Pow10(y.exp) < y.num * Pow10(x.exp)

\* a < b on key tuples (False < True, then the numbers)
KeyLess(a, b) ==
    \/ ~a.isNone /\ b.isNone
    \/ a.isNone = b.isNone /\ NumLess(a.val, b.val)

\* an insertion before the elements of equal key: an unstable sort
InsertAtUnstable(s, x) ==
    Min({i \in 1..(Len(s) + 1) :
            \A j \in i..Len(s) : ~KeyLess(SortKey(s[j]), SortKey(x))})

\* where list.sort puts x among the already ordered s: after every element
\* whose key is not greater (the sort is stable)
InsertAt(s, x) ==
    Min({i \in 1..(Len(s) + 1) :
            \A j \in i..Len(s) : KeyLess(SortKey(x), SortKey(s[j]))})

RECURSIVE SortedBy(_)
SortedBy(s) ==
    IF s = <<>> THEN <<>>
    ELSE LET front == SortedBy(SubSeq(s, 1, Len(s) - 1))
             x == s[Len(s)]
             i == InsertAt(front, x)
         IN SubSeq(front, 1, i - 1) \o <<x>> \o SubSeq(front, i, Len(front))

(***************************************************************************)
(* print_table and the exports.                                            *)
(***************************************************************************)
\* the width tests of the price column, line 97
PriceWidth == 19

\* line 97 raises TypeError: the price is sliced, and only text can be
IsText(v) == v.kind = "str"
PriceCellRaises(p) == Len(Str(p.price)) > PriceWidth /\ ~IsText(p.price)

\* for p in merged[:30], lines 95-100: some displayed row raises
print_table_raises(m) ==
    \E i \in 1..Len(m) : i <= DisplayRows /\ PriceCellRaises(m[i])

\* the number of rows displayed
DisplayedRows(m) == IF Len(m) < DisplayRows THEN Len(m) ELSE DisplayRows

RECURSIVE PadZeros(_, _)
PadZeros(t, n) == IF Len(t) >= n THEN t ELSE PadZeros(<<"0">> \o t, n)

\* the text csv writes for a minPrice cell: empty for None, else the decimal
FloatText(x) ==
    IF x = None THEN <<>>
    ELSE NatText(x.num \div Pow10(x.exp)) \o <<".">>
         \o (IF x.exp = 0 THEN <<"0">>
             ELSE PadZeros(NatText(x.num % Pow10(x.exp)), x.exp))

\* one row of csv.DictWriter.writerows, lines 123-128
CsvRow(p) ==
    [platform |-> p.platform, name |-> p.name,
     price |-> Str(p.price), minPrice |-> FloatText(p.minPrice)]

(***************************************************************************)
(* Specification of parse_min_price alone: one call on each enumerated     *)
(* argument.                                                               *)
(***************************************************************************)
Alphabet == {"$", "0", "5", ".", ",", " ", "a"}
Texts == UNION {[1..n -> Alphabet] : n \in 0..MaxLen}

ParseInputs ==
    {NoneVal, IntVal(0), IntVal(5), DictVal(<<>>), PriceDict}
        \cup {StrVal(t) : t \in Texts}

MainIdle ==
    /\ argv = <<>>
    /\ token = "absent"
    /\ pc = "main"
    /\ k = 1
    /\ items = <<>>
    /\ results = <<>>
    /\ merged = <<>>
    /\ status = [s \in {"yiwugo", "dhgate", "mic"} |-> "pending"]
    /\ fetched = [s \in {"yiwugo", "dhgate", "mic"} |-> <<>>]
    /\ calls = <<>>
    /\ stdout = <<>>
    /\ files = {}
    /\ sorted = FALSE
    /\ exitStatus = -1

InitParse ==
    /\ MainIdle
    /\ raw \in ParseInputs
    /\ parsed = Unset

CallParse ==
    /\ parsed = Unset
    /\ parsed' = parse_min_price(raw)
    /\ UNCHANGED <<raw, mainVars>>

NextParse == CallParse

SpecParse == InitParse /\ [][NextParse]_vars

(***************************************************************************)
(* main(): one run of the program.                                         *)
(***************************************************************************)
\* a printed line: what it says, about which platform, with which count
Line(tag, who, n) == [tag |-> tag, who |-> who, n |-> n]

Init ==
    /\ argv \in {<<>>, <<"kw">>}
    /\ token \in {"absent", "", "tok"}
    /\ pc = "main"
    /\ k = 1
    /\ items = <<>>
    /\ results = <<>>
    /\ merged = <<>>
    /\ status = [s \in {"yiwugo", "dhgate", "mic"} |-> "pending"]
    /\ fetched = [s \in {"yiwugo", "dhgate", "mic"} |-> <<>>]
    /\ calls = <<>>
    /\ stdout = <<>>
    /\ files = {}
    /\ sorted = FALSE
    /\ exitStatus = -1
    /\ raw = NoneVal
    /\ parsed = Unset

\* sys.exit(1) after a message, lines 134-135 and 140-141
Exit1(msg) ==
    /\ stdout' = Append(stdout, Line(msg, "", 0))
    /\ exitStatus' = 1
    /\ pc' = "exit"

\* lines 133-137: the usage check
CheckArgs ==
    /\ pc = "main"
    /\ IF Len(argv) < 1
       THEN Exit1("usage")
       ELSE pc' = "token" /\ UNCHANGED <<stdout, exitStatus>>
    /\ UNCHANGED <<argv, token, k, items, results, merged, status, fetched,
                   calls, files, sorted, raw, parsed>>

\* the key of the current iteration
Key == ACTORS[k]

\* a credential check that tests `token is None` only
CheckTokenNoneOnly ==
    /\ pc = "token"
    /\ IF token = "absent"
       THEN Exit1("set_token") /\ UNCHANGED <<k, merged>>
       ELSE /\ stdout' = Append(stdout, Line("searching", "", 3))
            /\ merged' = <<>>
            /\ k' = 1
            /\ pc' = "for"
            /\ UNCHANGED exitStatus
    /\ UNCHANGED <<argv, token, items, results, status, fetched, calls, files,
                   sorted, raw, parsed>>

\* lines 138-146: the credential check, then the client and the empty merged
CheckToken ==
    /\ pc = "token"
    /\ IF token \in {"absent", ""}
       THEN Exit1("set_token") /\ UNCHANGED <<k, merged>>
       ELSE /\ stdout' = Append(stdout, Line("searching", "", 3))
            /\ merged' = <<>>
            /\ k' = 1
            /\ pc' = "for"
            /\ UNCHANGED exitStatus
    /\ UNCHANGED <<argv, token, items, results, status, fetched, calls, files,
                   sorted, raw, parsed>>

\* a loop that stops one key short
ForNextOneShort ==
    /\ pc = "for"
    /\ IF k >= Len(ACTORS)
       THEN pc' = "empty_check" /\ UNCHANGED <<status, stdout>>
       ELSE /\ status' = [status EXCEPT ![Key] = "running"]
            /\ stdout' = Append(stdout, Line("starting", ActorName(Key), 0))
            /\ pc' = "call"
    /\ UNCHANGED <<argv, token, k, items, results, merged, fetched, calls,
                   files, sorted, exitStatus, raw, parsed>>

\* line 147 and lines 60-61: the next key, or the end of the loop; the try
\* block enters run_scraper, which announces the platform
ForNext ==
    /\ pc = "for"
    /\ IF k > Len(ACTORS)
       THEN pc' = "empty_check" /\ UNCHANGED <<status, stdout>>
       ELSE /\ status' = [status EXCEPT ![Key] = "running"]
            /\ stdout' = Append(stdout, Line("starting", ActorName(Key), 0))
            /\ pc' = "call"
    /\ UNCHANGED <<argv, token, k, items, results, merged, fetched, calls,
                   files, sorted, exitStatus, raw, parsed>>

\* a handler outside the loop: the first failure ends the aggregation
ExceptEndsLoop ==
    /\ stdout' = Append(stdout, Line("error", ActorName(Key), 0))
    /\ status' = [status EXCEPT ![Key] = "failed"]
    /\ items' = <<>>
    /\ results' = <<>>
    /\ k' = k + 1
    /\ pc' = "empty_check"
    /\ UNCHANGED <<merged, fetched>>

\* a handler that keeps the records built before the failure
ExceptKeepsPartial ==
    /\ stdout' = Append(stdout, Line("error", ActorName(Key), 0))
    /\ status' = [status EXCEPT ![Key] = "failed"]
    /\ merged' = merged \o results
    /\ items' = <<>>
    /\ results' = <<>>
    /\ k' = k + 1
    /\ pc' = "for"
    /\ UNCHANGED fetched

\* lines 150-151: an exception of run_scraper is caught and printed, the frame
\* of run_scraper is gone, the loop goes on with the next key
Except ==
    /\ stdout' = Append(stdout, Line("error", ActorName(Key), 0))
    /\ status' = [status EXCEPT ![Key] = "failed"]
    /\ items' = <<>>
    /\ results' = <<>>
    /\ k' = k + 1
    /\ pc' = "for"
    /\ UNCHANGED <<merged, fetched>>

\* lines 62-65: client.actor(id).call(...) returns a run or raises
ActorCall ==
    /\ pc = "call"
    /\ calls' = Append(calls, Key)
    /\ \/ pc' = "drain" /\ UNCHANGED <<stdout, status, items, results, k,
                                       merged, fetched>>
       \/ Except
    /\ UNCHANGED <<argv, token, files, sorted, exitStatus, raw, parsed>>

\* lines 66-71: the dataset is drained up to the limit, or the client raises
Drain ==
    /\ pc = "drain"
    /\ \/ \E dataset \in Datasets :
            /\ items' = IterateItems(dataset)
            /\ stdout' = Append(stdout, Line("products", ActorName(Key),
                                             Len(IterateItems(dataset))))
            /\ results' = <<>>
            /\ pc' = "normalize"
            /\ UNCHANGED <<status, k, merged, fetched>>
       \/ Except
    /\ UNCHANGED <<argv, token, calls, files, sorted, exitStatus, raw, parsed>>

\* lines 72-84: one iteration of `for item in items`; parse_min_price may raise
NormalizeItem ==
    /\ pc = "normalize"
    /\ Len(results) < Len(items)
    /\ LET rec == Normalize(Key, items[Len(results) + 1])
       IN IF rec.minPrice = ValueError
          THEN Except
          ELSE /\ results' = Append(results, rec)
               /\ UNCHANGED <<stdout, status, items, k, pc, merged, fetched>>
    /\ UNCHANGED <<argv, token, calls, files, sorted, exitStatus, raw, parsed>>

\* line 85 and line 149: run_scraper returns, merged.extend(results)
Return ==
    /\ pc = "normalize"
    /\ Len(results) = Len(items)
    /\ merged' = merged \o results
    /\ status' = [status EXCEPT ![Key] = "ok"]
    /\ fetched' = [fetched EXCEPT ![Key] = items]
    /\ items' = <<>>
    /\ results' = <<>>
    /\ k' = k + 1
    /\ pc' = "for"
    /\ UNCHANGED <<argv, token, calls, stdout, files, sorted, exitStatus, raw,
                   parsed>>

\* a main without the emptiness test
EmptyCheckFallsThrough ==
    /\ pc = "empty_check"
    /\ pc' = "sort"
    /\ UNCHANGED <<stdout, exitStatus>>
    /\ UNCHANGED <<argv, token, k, items, results, merged, status, fetched,
                   calls, files, sorted, raw, parsed>>

\* lines 153-155: nothing merged: a message and a plain return
EmptyCheck ==
    /\ pc = "empty_check"
    /\ IF merged = <<>>
       THEN /\ stdout' = Append(stdout, Line("no_results", "", 0))
            /\ exitStatus' = 0
            /\ pc' = "exit"
       ELSE pc' = "sort" /\ UNCHANGED <<stdout, exitStatus>>
    /\ UNCHANGED <<argv, token, k, items, results, merged, status, fetched,
                   calls, files, sorted, raw, parsed>>

\* line 158
Sort ==
    /\ pc = "sort"
    /\ merged' = SortedBy(merged)
    /\ sorted' = TRUE
    /\ pc' = "print_table"
    /\ UNCHANGED <<argv, token, k, items, results, status, fetched, calls,
                   stdout, files, exitStatus, raw, parsed>>

\* line 160 and lines 88-116: the table and the summary, or the TypeError of
\* a displayed row, which nothing catches: traceback, exit status 1
PrintTable ==
    /\ pc = "print_table"
    /\ IF print_table_raises(merged)
       THEN /\ stdout' = Append(stdout, Line("traceback", "", 0))
            /\ exitStatus' = 1
            /\ pc' = "exit"
       ELSE /\ stdout' = Append(stdout,
                                Line("table", "", DisplayedRows(merged)))
            /\ pc' = "json"
            /\ UNCHANGED exitStatus
    /\ UNCHANGED <<argv, token, k, items, results, merged, status, fetched,
                   calls, files, sorted, raw, parsed>>

\* lines 163-166: json.dump of the whole merged collection
JsonDump ==
    /\ pc = "json"
    /\ files' = files \cup {[name |-> "json", rows |-> merged]}
    /\ stdout' = Append(stdout, Line("json_saved", "", Len(merged)))
    /\ pc' = "csv"
    /\ UNCHANGED <<argv, token, k, items, results, merged, status, fetched,
                   calls, sorted, exitStatus, raw, parsed>>

\* lines 168-169 and 119-129: export_csv writes a row per record; main returns
ExportCsv ==
    /\ pc = "csv"
    /\ files' = files \cup
                  {[name |-> "csv",
                    rows |-> [i \in 1..Len(merged) |-> CsvRow(merged[i])]]}
    /\ stdout' = Append(stdout, Line("csv_saved", "", Len(merged)))
    /\ exitStatus' = 0
    /\ pc' = "exit"
    /\ UNCHANGED <<argv, token, k, items, results, merged, status, fetched,
                   calls, sorted, raw, parsed>>

Next ==
    \/ CheckArgs
    \/ CheckToken
    \/ ForNext
    \/ ActorCall
    \/ Drain
    \/ NormalizeItem
    \/ Return
    \/ EmptyCheck
    \/ Sort
    \/ PrintTable
    \/ JsonDump
    \/ ExportCsv

Spec == Init /\ [][Next]_vars

(***************************************************************************)
(* Properties.                                                             *)
(***************************************************************************)
Sources == {"yiwugo", "dhgate", "mic"}
Settled(s) == status[s] \in {"ok", "failed"}
PassedPreconditions == argv # <<>> /\ token = "tok"
HasLine(tag) == \E i \in 1..Len(stdout) : stdout[i].tag = tag
ErrorLines(s) ==
    {i \in 1..Len(stdout) :
        stdout[i].tag = "error" /\ stdout[i].who = ActorName(s)}
RecordsOf(s) == {i \in 1..Len(merged) : merged[i].platform = ActorName(s)}

\* the records a source owes to the merged collection: those of its fetched
\* items when its call succeeded, none otherwise
Contribution(s) ==
    IF status[s] = "ok"
    THEN [i \in 1..Len(fetched[s]) |-> Normalize(s, fetched[s][i])]
    ELSE <<>>

\* C1: whatever subset of the sources fails, until the sort the merged
\* collection is exactly the records of the sources that succeeded, in
\* registry order; each failed source has exactly one error line and the
\* others none; nothing escapes the loop (no traceback before the sort); and
\* past the loop every source has been called and has succeeded or failed.
C1_Resilience ==
    /\ ~sorted =>
         merged = Contribution("yiwugo") \o Contribution("dhgate")
                    \o Contribution("mic")
    /\ \A s \in Sources :
         Cardinality(ErrorLines(s)) = IF status[s] = "failed" THEN 1 ELSE 0
    /\ HasLine("traceback") => sorted
    /\ pc \in {"empty_check", "sort"} =>
         calls = ACTORS /\ \A s \in Sources : Settled(s)

\* the loop is over, dhgate alone failed, the other two each gave records
C1_Witness ==
    /\ pc = "empty_check"
    /\ status = [s \in Sources |-> IF s = "dhgate" THEN "failed" ELSE "ok"]
    /\ RecordsOf("yiwugo") # {} /\ RecordsOf("mic") # {}
    /\ Len(merged) = Len(fetched["yiwugo"]) + Len(fetched["mic"])

\* C2: after the sort, every adjacent pair (a, b) has a priced and b not, or
\* both priced with a.minPrice <= b.minPrice, or both unpriced.
C2_SortLaw ==
    sorted =>
      \A i \in 1..(Len(merged) - 1) :
        LET a == merged[i].minPrice
            b == merged[i + 1].minPrice
        IN \/ a # None /\ b = None
           \/ a # None /\ b # None
                /\ a.num * Pow10(b.exp) <= b.num * Pow10(a.exp)
           \/ a = None /\ b = None

\* a sorted collection with a zero price, a positive price and an unpriced
\* record, whose first record came from the last source
C2_Witness ==
    /\ sorted
    /\ \E i, j, n \in 1..Len(merged) :
         /\ merged[i].minPrice = Float(0, 0)
         /\ merged[j].minPrice # None /\ merged[j].minPrice.num > 0
         /\ merged[n].minPrice = None
    /\ merged[1].platform = "Made-in-China"
    /\ merged[Len(merged)].platform = "Yiwugo"

\* C3: every merged record belongs to a source whose call succeeded; a source
\* that has not succeeded (failed in the actor call, the drain or the
\* normalisation of an item, or still running) has no record in it; a source
\* that succeeded has exactly one record per fetched item, at most ItemLimit.
C3_AllOrNothing ==
    /\ \A i \in 1..Len(merged) :
         \E s \in Sources :
           status[s] = "ok" /\ merged[i].platform = ActorName(s)
    /\ \A s \in Sources :
         IF status[s] = "ok"
         THEN /\ Len(fetched[s]) <= ItemLimit
              /\ Cardinality(RecordsOf(s)) = Len(fetched[s])
              /\ \A j \in 1..Len(fetched[s]) :
                   \E i \in RecordsOf(s) :
                     merged[i] = Normalize(s, fetched[s][j])
         ELSE RecordsOf(s) = {}

\* a source failed after its dataset was drained (an error line follows its
\* count of 2 products), beside a source that contributed a full batch
C3_Witness ==
    /\ \E s \in Sources :
         /\ status[s] = "failed"
         /\ \E i \in 1..Len(stdout) :
              stdout[i] = Line("products", ActorName(s), ItemLimit)
    /\ \E s \in Sources :
         status[s] = "ok" /\ Cardinality(RecordsOf(s)) = ItemLimit

\* the last line printed and the exit status of a finished run
Outcome == <<stdout[Len(stdout)], exitStatus>>
\* how a run ends in which every source succeeded with zero items
NoMatchOutcome == <<Line("no_results", "", 0), 0>>
AllFailed == \A s \in Sources : status[s] = "failed"
AllEmpty == \A s \in Sources : status[s] = "ok" /\ fetched[s] = <<>>

\* C4 as stated: a run in which all 3 sources failed ends in an outcome that
\* differs from the one of a run whose sources all succeeded with no item.
C4_Distinguishable ==
    (pc = "exit" /\ AllFailed) => Outcome # NoMatchOutcome

\* C4 amended: a run in which all 3 sources failed ends in the explicit
\* empty outcome (the "no results" line, status 0, nothing sorted, displayed
\* or exported), which is not a per-source error line; a run whose sources
\* all succeeded with no item ends in the same outcome, and the two differ
\* in the per-source lines before it (3 error lines against none).
C4_EmptyOutcome ==
    /\ (pc = "exit" /\ AllFailed) =>
         /\ Outcome = NoMatchOutcome
         /\ Outcome[1].tag # "error"
         /\ \A s \in Sources : Cardinality(ErrorLines(s)) = 1
         /\ ~sorted /\ files = {} /\ ~HasLine("table")
    /\ (pc = "exit" /\ AllEmpty) =>
         /\ Outcome = NoMatchOutcome
         /\ ~HasLine("error")
         /\ ~sorted /\ files = {} /\ ~HasLine("table")

C4_Witness == pc = "exit" /\ AllFailed /\ calls = ACTORS

\* C8: without the keyword argument or the credential, no actor is called,
\* nothing is merged and no file is written, and once past the checks the run
\* has ended with one message and exit status 1.
C8_Preconditions ==
    ~PassedPreconditions =>
      /\ calls = <<>> /\ merged = <<>> /\ files = {}
      /\ \A s \in Sources : status[s] = "pending"
      /\ pc \in {"main", "token", "exit"}
      /\ pc = "exit" =>
           /\ exitStatus = 1
           /\ Len(stdout) = 1
           /\ stdout[1].tag =
                IF argv = <<>> THEN "usage" ELSE "set_token"

\* a run given a keyword and an empty APIFY_TOKEN has ended
C8_Witness == pc = "exit" /\ argv # <<>> /\ token = ""

\* position of a record in append order: its source's place in the registry,
\* then its item's place among the source's fetched items
SourceIndex(p) == CHOOSE n \in 1..Len(ACTORS) : ActorName(ACTORS[n]) = p.platform
ItemIndex(p) ==
    CHOOSE j \in 1..Len(fetched[ACTORS[SourceIndex(p)]]) :
      fetched[ACTORS[SourceIndex(p)]][j].productName = p.name

\* C7: after the sort, two records of equal price (or both unpriced) stand in
\* append order: by registry order of their sources and, within a source, in
\* the order the source returned them.
C7_StableTies ==
    sorted =>
      \A i, j \in 1..Len(merged) :
        (i < j /\ merged[i].minPrice = merged[j].minPrice) =>
          \/ SourceIndex(merged[i]) < SourceIndex(merged[j])
          \/ /\ SourceIndex(merged[i]) = SourceIndex(merged[j])
             /\ ItemIndex(merged[i]) < ItemIndex(merged[j])

\* a sorted collection with a tie inside one source and a tie across two
\* sources, in which a later source's record precedes an earlier source's
C7_Witness ==
    /\ sorted
    /\ \E i, j \in 1..Len(merged) :
         /\ i < j /\ merged[i].minPrice = merged[j].minPrice
         /\ merged[i].platform = merged[j].platform
    /\ \E i, j \in 1..Len(merged) :
         /\ i < j /\ merged[i].minPrice = merged[j].minPrice
         /\ merged[i].platform # merged[j].platform
    /\ \E i, j \in 1..Len(merged) :
         i < j /\ SourceIndex(merged[j]) < SourceIndex(merged[i])

\* the aggregation states of a run past its preconditions
Done == sorted
EmptyResult == pc = "exit" /\ ~sorted /\ HasLine("no_results")

\* C9: the actors are called in registry order, each at most once and, when
\* the loop is over, each exactly once; the only source not yet settled among
\* those started is the one whose run_scraper call is in progress; the sort
\* runs only after all three have succeeded or failed; and a finished run is
\* in exactly one of Done (merged non-empty) and EmptyResult (merged empty,
\* nothing displayed, nothing exported).
C9_Sequential ==
    /\ calls = SubSeq(ACTORS, 1, Len(calls))
    /\ \A n \in 1..Len(ACTORS) :
         /\ n < k => Settled(ACTORS[n])
         /\ n > k => status[ACTORS[n]] = "pending"
         /\ status[ACTORS[n]] = "running" =>
              n = k /\ pc \in {"call", "drain", "normalize"}
    /\ (pc \in {"empty_check", "sort"} \/ sorted \/ HasLine("no_results")) =>
         calls = ACTORS /\ \A s \in Sources : Settled(s)
    /\ Done => merged # <<>> /\ ~HasLine("no_results")
    /\ (pc = "exit" /\ PassedPreconditions) =>
         \/ Done
         \/ /\ EmptyResult
            /\ merged = <<>> /\ files = {} /\ ~HasLine("table")

\* a run whose first source failed has been sorted and exported
C9_Witness ==
    /\ pc = "exit" /\ Done
    /\ status["yiwugo"] = "failed"
    /\ Cardinality(files) = 2

\* C10: a finished run that sorted a non-empty merged collection has written
\* the JSON snapshot and the CSV export, each with every merged record.
C10_ExportFollows ==
    (pc = "exit" /\ sorted /\ merged # <<>>) =>
      /\ [name |-> "json", rows |-> merged] \in files
      /\ \E f \in files :
           f.name = "csv" /\ f.rows = [i \in 1..Len(merged) |-> CsvRow(merged[i])]

(***************************************************************************)
(* Properties of parse_min_price.                                          *)
(***************************************************************************)
HasDigit(t) == \E i \in 1..Len(t) : t[i] \in Digit

\* C5: a call of parse_min_price never raises: it returns a non-negative
\* number or None, and None for an argument whose text has no digit.
C5_NeverFails ==
    parsed # Unset =>
      /\ parsed.tag \in {"None", "float"}
      /\ parsed.tag = "float" => parsed.num >= 0
      /\ ~HasDigit(Str(raw)) => parsed = None

\* last index of the run of digits of s starting at j (j - 1 if none)
DigitsEnd(s, j) ==
    CHOOSE e \in (j - 1)..Len(s) :
        (\A n \in j..e : s[n] \in Digit) /\ (e = Len(s) \/ s[e + 1] \notin Digit)

\* last index of the decimal number of s starting at j (0 if none starts
\* there): digits with an optional fraction, or a dot followed by digits
DecimalEnd(s, j) ==
    IF j > Len(s) THEN 0
    ELSE IF s[j] \in Digit
         THEN LET e == DigitsEnd(s, j)
              IN IF e < Len(s) /\ s[e + 1] = "." THEN DigitsEnd(s, e + 2) ELSE e
         ELSE IF s[j] = "." /\ j < Len(s) /\ s[j + 1] \in Digit
              THEN DigitsEnd(s, j + 1)
              ELSE 0

\* the extraction rule: commas removed; the first number that immediately
\* follows a "$", as it is; else the first number, times the conversion
\* constant; else nothing
ExtractionRule(t) ==
    LET s == SelectSeq(t, NotComma)
        marked == {i \in 1..Len(s) : s[i] = "$" /\ DecimalEnd(s, i + 1) > 0}
        bare == {i \in 1..Len(s) : DecimalEnd(s, i) > 0}
    IN IF marked # {}
       THEN float(SubSeq(s, Min(marked) + 1, DecimalEnd(s, Min(marked) + 1)))
       ELSE IF bare # {}
            THEN Times(float(SubSeq(s, Min(bare), DecimalEnd(s, Min(bare)))),
                       CNY_TO_USD)
            ELSE None

\* C6: for every price text, parse_min_price returns what the extraction
\* rule gives.
C6_ExtractionRule ==
    (parsed # Unset /\ raw.kind = "str") => parsed = ExtractionRule(raw.text)

=============================================================================
